---- MODULE Spec2Model ----
(***************************************************************************)
(* The approval lifecycle of app/routers/approvals.py: the approve and     *)
(* reject handlers, the read paths, the PostgreSQL rows they touch and the *)
(* outbound webhook call.                                                  *)
(*                                                                         *)
(* Each request runs in its own AsyncSession (db.py get_session).  The     *)
(* store is PostgreSQL at READ COMMITTED: a statement reads committed      *)
(* rows, the writes of a transaction become visible together at COMMIT,    *)
(* SELECT ... FOR UPDATE and UPDATE wait for the row lock, the lock is     *)
(* released at COMMIT or when the session is closed, and after a statement *)
(* has raised an error every later statement of the same transaction       *)
(* raises too until a rollback (the handlers never roll back).             *)
(***************************************************************************)
EXTENDS Integers, Sequences, FiniteSets, TLC

\* Bounds of the model.
MaxCalls == 2        \* requests in one behaviour; they may all be in flight together

\* The requests, numbered in the order they arrive.
Calls == 1..MaxCalls

\* Python's None / SQL NULL for the text columns and locals.
None == "<None>"
\* approved_at IS NULL
NullTime == 0
\* no session holds the row lock
NoCall == 0

Orgs == {"o1", "o2"}
Users == {"u1", "u2", "u3"}
\* the org claim of each user's session token (deps.py authed)
OrgOfUser == [u \in Users |-> IF u = "u3" THEN "o2" ELSE "o1"]

\* rows of table approvals and the organization owning each
ApprovalIds == {"a1", "a2"}
OrgOfApproval == [a \in ApprovalIds |-> IF a = "a1" THEN "o1" ELSE "o2"]
\* ids a client may put in the path; "a0" names no row
RequestIds == ApprovalIds \cup {"a0"}
\* the (path id, caller) pairs of the requests
Requests == {<<"a1", "u1">>, <<"a1", "u2">>, <<"a1", "u3">>,
             <<"a2", "u3">>, <<"a0", "u1">>}

Statuses == {"pending", "approved", "rejected", "sent", "failed"}

ApprovalHook == "https://x/hook"
OrgHook == "https://org/hook"

\* What client.post can produce: a response with a status code, or an
\* exception (httpx.TimeoutException, httpx.RequestError) whose str() may be
\* empty.
StatusCodes == {200, 201, 500}
StatusText == [s \in StatusCodes |-> CASE s = 200 -> "200" [] s = 201 -> "201" [] s = 500 -> "500"]
WebhookOutcomes ==
    {[kind |-> "response", status_code |-> s, text |-> ""] : s \in StatusCodes}
    \cup {[kind |-> "exception", status_code |-> 0, text |-> t] : t \in {"", "ConnectError"}}

\* Table approval_assets; no handler writes it.  s2 has no external_url, s3
\* belongs to the approval of the other organization and has no mime_type.
AssetIds == {"s1", "s2", "s3"}
approval_assets ==
    [s \in AssetIds |->
        [id |-> s,
         approval_id |-> IF s = "s3" THEN "a2" ELSE "a1",
         external_url |-> IF s = "s2" THEN None ELSE "https://minio/bucket/" \o s \o "?X-Amz-Signature=k",
         filename |-> IF s = "s1" THEN "invoice.pdf" ELSE None,
         mime_type |-> IF s = "s1" THEN "application/pdf" ELSE None]]

\* the (path approval id, path asset id, caller) triples of the asset views;
\* "s0" names no asset
ViewRequests ==
    {<<"a1", "s1", "u1">>, <<"a1", "s2", "u2">>, <<"a1", "s0", "u1">>,
     <<"a1", "s1", "u3">>, <<"a2", "s1", "u3">>}

\* A response body of the upstream as the classifier sees it (its first 10240
\* characters): whether there is any text, whether the text is well-formed
\* XML, and the texts between <Code> and </Code>, in document order: of the
\* Code elements below the root (well-formed), of the fragments (otherwise).
Body(present, well_formed, codes) ==
    [present |-> present, well_formed |-> well_formed, codes |-> codes]
NoBody == Body(FALSE, FALSE, <<>>)

\* What client.get can produce.
UpstreamOutcomes ==
    {[kind |-> "response", status_code |-> 200, body |-> NoBody, content_type |-> t]
        : t \in {"image/png"}}
    \cup {[kind |-> "response", status_code |-> x[1], body |-> x[2], content_type |-> None]
        : x \in {<<403, Body(TRUE, TRUE, <<"NoSuchKey">>)>>,
                 <<400, Body(TRUE, FALSE, <<"ExpiredToken">>)>>,
                 <<403, NoBody>>,
                 <<500, NoBody>>,
                 <<204, NoBody>>}}
    \cup {[kind |-> k, status_code |-> 0, body |-> NoBody, content_type |-> None]
        : k \in {"timeout", "request_error", "other_error"}}

VARIABLES
    approvals,        \* table approvals (committed rows)
    approval_events,  \* table approval_events (committed rows), per approval_id, in insert order
    organizations,    \* table organizations (committed rows)
    row_lock,         \* which session holds the row lock of each approvals row
    call,             \* the requests in flight: locals, open transaction, response
    webhook_posts,    \* the POSTs issued so far, per approval
    clock,            \* NOW()
    started,          \* number of requests started
    resolved_by       \* per approval: the requests that committed a transition out of pending

vars == <<approvals, approval_events, organizations, row_lock, call,
          webhook_posts, clock, started, resolved_by>>

NoRow == [found |-> FALSE]
NoResponse == [status_code |-> 0]
\* client.post has not returned
NoOutcome == [kind |-> "none", status_code |-> 0, text |-> ""]
\* client.get has not been called
NoUpstream == [kind |-> "none", status_code |-> 0, body |-> NoBody, content_type |-> None]

\* A request before it arrives.  op, approval_id, asset_id, user_id, org_id:
\* the endpoint, the path parameters and the caller.  approval_row, asset_row,
\* webhook_url, payload_assets, webhook_outcome, final_status, error_message:
\* the handler's locals.  tx_row, tx_events: the uncommitted writes of the
\* session's transaction; tx_failed: a statement of it has raised.
\* status_at_start: the committed status of the named row when the request
\* arrived.  n_events, n_updates, n_commits, n_posts: what the request has
\* committed and POSTed so far.  upstream: what client.get produced for an
\* asset view; n_fetches: the GETs the request issued.
IdleCall ==
    [op |-> "none", pc |-> "idle",
     approval_id |-> "a0", user_id |-> "u1", org_id |-> "o1",
     status_at_start |-> None,
     asset_id |-> "s0", asset_row |-> NoRow, upstream |-> NoUpstream,
     approval_row |-> NoRow, webhook_url |-> None, payload_assets |-> FALSE,
     webhook_outcome |-> NoOutcome,
     final_status |-> None, error_message |-> None,
     tx_row |-> NoRow, tx_events |-> <<>>, tx_failed |-> FALSE,
     response |-> NoResponse,
     n_events |-> 0, n_updates |-> 0, n_commits |-> 0, n_posts |-> 0,
     n_fetches |-> 0]

\* Python truthiness of an Optional[str].
Truthy(s) == s # None /\ s # ""

\* The rows before the first request: every approval is pending, as its
\* ingestion created it, with or without a webhook URL of its own, and the
\* organization o1 with or without one.
Init ==
    /\ approvals \in
         {[a \in ApprovalIds |->
             [id |-> a, org_id |-> OrgOfApproval[a], status |-> "pending",
              approved_by_user_id |-> None, approved_at |-> NullTime,
              n8n_execute_webhook_url |-> IF a = "a1" THEN u ELSE None]]
            : u \in {None, ApprovalHook}}
    /\ organizations \in
         {[o \in Orgs |-> [id |-> o, n8n_approval_webhook_url |-> IF o = "o1" THEN u ELSE None]]
            : u \in {None, OrgHook}}
    /\ approval_events = [a \in ApprovalIds |-> <<>>]
    /\ row_lock = [a \in ApprovalIds |-> NoCall]
    /\ call = [c \in Calls |-> IdleCall]
    /\ webhook_posts = [a \in ApprovalIds |-> <<>>]
    /\ clock = 0
    /\ started = 0
    /\ resolved_by = [a \in ApprovalIds |-> <<>>]


(***************************************************************************)
(* The store.                                                              *)
(***************************************************************************)

\* Mutant: the query without "AND org_id = :org_id".
SelectApproval_AnyOrg(a, org) ==
    IF a \in ApprovalIds
    THEN [found |-> TRUE, row |-> approvals[a]]
    ELSE [found |-> FALSE]

\* SELECT ... FROM approvals WHERE id = :approval_id AND org_id = :org_id
SelectApproval(a, org) ==
    IF a \in ApprovalIds /\ approvals[a].org_id = org
    THEN [found |-> TRUE, row |-> approvals[a]]
    ELSE NoRow

\* Mutant: the query without FOR UPDATE, which waits for nobody.
LockFree_NoWait(a, c) == TRUE

\* FOR UPDATE, and UPDATE of a row: the statement waits while another session
\* holds the row lock.
LockFree(a, c) == row_lock[a] \in {NoCall, c}

\* Mutant: the row lock outlives the commit.
Released_Kept(c) == row_lock

\* Mutant: only a commit releases the lock; a session closed without one keeps it.
Released_OnCommitOnly(c) ==
    IF call[c].tx_row.found
    THEN [a \in ApprovalIds |-> IF row_lock[a] = c THEN NoCall ELSE row_lock[a]]
    ELSE row_lock

\* Closing the session (get_session's "async with") ends its transaction:
\* the locks it holds are released.
Released(c) == [a \in ApprovalIds |-> IF row_lock[a] = c THEN NoCall ELSE row_lock[a]]

\* The row log_approval_event inserts; metadata defaults to {}.
log_approval_event(event, user_id, metadata) ==
    [event |-> event, by_user_id |-> user_id, metadata |-> metadata]

EmptyMetadata == <<>>

\* Mutant: the commit replaces the log of the approval by the new events.
CommittedEvents_Rewritten(c) ==
    [approval_events EXCEPT ![call[c].approval_id] = call[c].tx_events]

\* approval_events after COMMIT of the transaction of request c
CommittedEvents(c) ==
    [approval_events EXCEPT ![call[c].approval_id] = @ \o call[c].tx_events]

\* Mutant: the UPDATE stays in the session and never reaches the table.
CommittedApprovals_Unflushed(c) == approvals

\* approvals after COMMIT of the transaction of request c
CommittedApprovals(c) ==
    IF call[c].tx_row.found
    THEN [approvals EXCEPT ![call[c].approval_id] = call[c].tx_row.row]
    ELSE approvals

(***************************************************************************)
(* Responses.                                                              *)
(***************************************************************************)

HTTPException(code, detail) == [status_code |-> code, detail |-> detail]

ApprovalActionResponse(message, approval_id, status) ==
    [status_code |-> 200, ok |-> TRUE, message |-> message,
     approval_id |-> approval_id, status |-> status]

\* An exception no handler catches: Starlette answers 500.
InternalServerError == [status_code |-> 500, detail |-> "Internal Server Error"]

\* The request ends with response r; its session is closed.
Finished(c, r) ==
    [call[c] EXCEPT !.pc = "done", !.response = r,
                    !.tx_row = NoRow, !.tx_events = <<>>]

(***************************************************************************)
(* A request arrives: routing, the authed dependency and get_session.      *)
(***************************************************************************)


Begin(c, op, a, u) ==
    /\ call[c].pc = "idle"
    /\ c = started + 1
    /\ started' = started + 1
    /\ call' = [call EXCEPT ![c] =
                  [IdleCall EXCEPT !.op = op, !.pc = "lock",
                                   !.approval_id = a, !.user_id = u,
                                   !.org_id = OrgOfUser[u],
                                   !.status_at_start =
                                       IF SelectApproval(a, OrgOfUser[u]).found
                                       THEN approvals[a].status ELSE None]]
    /\ UNCHANGED <<approvals, approval_events, organizations, row_lock,
                   webhook_posts, clock, resolved_by>>

(***************************************************************************)
(* POST /approvals/{approval_id}/approve                                   *)
(***************************************************************************)

approve_approval_Begin(c) ==
    \E r \in Requests : Begin(c, "approve", r[1], r[2])

\* Step 1: the lock query.  A row that does not match is not locked.
approve_approval_Lock(c) ==
    /\ call[c].op = "approve" /\ call[c].pc = "lock"
    /\ LET sel == SelectApproval(call[c].approval_id, call[c].org_id) IN
         IF sel.found
         THEN /\ LockFree(call[c].approval_id, c)
              /\ row_lock' = [row_lock EXCEPT ![call[c].approval_id] = c]
              /\ call' = [call EXCEPT ![c].pc = "guard", ![c].approval_row = sel]
         ELSE /\ row_lock' = row_lock
              /\ call' = [call EXCEPT ![c].pc = "guard", ![c].approval_row = NoRow]
    /\ UNCHANGED <<approvals, approval_events, organizations, webhook_posts,
                   clock, started, resolved_by>>

\* Mutant: a failed approval may be approved again.
ApproveAllowed_RetryFailed(row) == row.status \in {"pending", "failed"}

\* Mutant: no status guard in approve.
ApproveAllowed_Always(row) == TRUE

\* Mutant: approve guards against rejected rows only.
ApproveAllowed_NotRejected(row) == row.status # "rejected"

\* if approval_row["status"] != "pending": raise
ApproveAllowed(row) == row.status = "pending"

\* UPDATE approvals SET status = 'approved', approved_by_user_id = :user_id,
\* approved_at = NOW() WHERE id = :approval_id
ApprovedRow(row, user_id, now) ==
    [row EXCEPT !.status = "approved", !.approved_by_user_id = user_id,
                !.approved_at = now]

\* The two guards, then step 2 (UPDATE ... SET status = 'approved') and step 3
\* (the 'approved' event), both inside the open transaction.
approve_approval_Guard(c) ==
    /\ call[c].op = "approve" /\ call[c].pc = "guard"
    /\ IF ~call[c].approval_row.found
       THEN /\ call' = [call EXCEPT ![c] = Finished(c, HTTPException(404, "Approval not found"))]
            /\ row_lock' = Released(c)
            /\ clock' = clock
       ELSE IF ~ApproveAllowed(call[c].approval_row.row)
       THEN /\ call' = [call EXCEPT ![c] = Finished(c, HTTPException(400,
                        "Cannot approve: approval is already '"
                            \o call[c].approval_row.row.status \o "'"))]
            /\ row_lock' = Released(c)
            /\ clock' = clock
       ELSE /\ clock' = clock + 1
            /\ call' = [call EXCEPT
                 ![c].pc = "commit",
                 ![c].tx_row = [found |-> TRUE,
                                row |-> ApprovedRow(approvals[call[c].approval_id],
                                                    call[c].user_id, clock + 1)],
                 ![c].tx_events = <<log_approval_event("approved", call[c].user_id, EmptyMetadata)>>]
            /\ row_lock' = row_lock
    /\ UNCHANGED <<approvals, approval_events, organizations, webhook_posts,
                   started, resolved_by>>

\* Mutant: the organization's URL is preferred to the approval's own.
ResolveWebhookUrl_OrgFirst(row) ==
    IF Truthy(organizations[row.org_id].n8n_approval_webhook_url)
    THEN organizations[row.org_id].n8n_approval_webhook_url
    ELSE row.n8n_execute_webhook_url

\* Mutant: with no URL of its own and none of its organization, a default is used.
ResolveWebhookUrl_Default(row) ==
    IF Truthy(row.n8n_execute_webhook_url)
    THEN row.n8n_execute_webhook_url
    ELSE IF Truthy(organizations[row.org_id].n8n_approval_webhook_url)
         THEN organizations[row.org_id].n8n_approval_webhook_url
         ELSE OrgHook

\* Step 4: the approval's own URL, else the organization's.
ResolveWebhookUrl(row) ==
    IF Truthy(row.n8n_execute_webhook_url)
    THEN row.n8n_execute_webhook_url
    ELSE IF Truthy(organizations[row.org_id].n8n_approval_webhook_url)
         THEN organizations[row.org_id].n8n_approval_webhook_url
         ELSE row.n8n_execute_webhook_url

\* message=f"Approval {final_status}" + (f": {error_message}" if error_message else "")
ApproveMessage(final_status, error_message) ==
    "Approval " \o final_status \o
        (IF Truthy(error_message) THEN ": " \o error_message ELSE "")

\* await db.commit() of the first transaction, then step 4; with no URL the
\* handler returns at once with final_status = "approved".
approve_approval_Commit(c) ==
    /\ call[c].op = "approve" /\ call[c].pc = "commit"
    /\ approvals' = CommittedApprovals(c)
    /\ approval_events' = CommittedEvents(c)
    /\ row_lock' = Released(c)
    /\ resolved_by' = [resolved_by EXCEPT ![call[c].approval_id] = Append(@, c)]
    /\ LET url == ResolveWebhookUrl(call[c].approval_row.row)
           committed == [call[c] EXCEPT !.n_events = @ + Len(call[c].tx_events),
                                        !.n_updates = @ + 1,
                                        !.n_commits = @ + 1,
                                        !.tx_row = NoRow, !.tx_events = <<>>,
                                        !.webhook_url = url,
                                        !.final_status = "approved"]
       IN  IF Truthy(url)
           THEN call' = [call EXCEPT ![c] = [committed EXCEPT !.pc = "post"]]
           ELSE call' = [call EXCEPT ![c] =
                   [committed EXCEPT
                      !.pc = "done",
                      !.response = ApprovalActionResponse(
                                      ApproveMessage("approved", None),
                                      call[c].approval_id, "approved")]]
    /\ UNCHANGED <<organizations, webhook_posts, clock, started>>

\* What the assets query of step 5 can do: return the rows; raise as a
\* statement of the open transaction, which leaves the transaction failed;
\* raise before the session has a connection (none could be checked out),
\* which leaves the session without a transaction and fit for later use.
AssetGathering == {"rows", "statement_error", "connection_error"}

\* Step 5: the assets of the payload, then client.post(webhook_url,
\* json=payload_data, ...).  When the assets query raises, the except clause
\* logs a warning and the POST goes out with the payload as it is.
approve_approval_Post(c) ==
    /\ call[c].op = "approve" /\ call[c].pc = "post"
    /\ \E g \in AssetGathering :
         /\ webhook_posts' = [webhook_posts EXCEPT ![call[c].approval_id] =
                                Append(@, [url |-> call[c].webhook_url,
                                           assets |-> (g = "rows")])]
         /\ call' = [call EXCEPT ![c].pc = "await", ![c].n_posts = @ + 1,
                                 ![c].payload_assets = (g = "rows"),
                                 ![c].tx_failed = (g = "statement_error")]
    /\ UNCHANGED <<approvals, approval_events, organizations, row_lock,
                   clock, started, resolved_by>>

\* if response.status_code == 200
WebhookSucceeded(o) == o.kind = "response" /\ o.status_code = 200

\* final_status after the POST
FinalStatus(o) == IF WebhookSucceeded(o) THEN "sent" ELSE "failed"

\* error_message after the POST
ErrorMessage(o) ==
    IF WebhookSucceeded(o) THEN None
    ELSE IF o.kind = "response"
         THEN "Webhook returned status " \o StatusText[o.status_code]
         ELSE o.text

\* metadata of the 'sent' / 'failed' event
EventMetadata(o) ==
    IF WebhookSucceeded(o) THEN [webhook_status |-> o.status_code]
    ELSE IF o.kind = "response"
         THEN [error |-> ErrorMessage(o), webhook_status |-> o.status_code]
         ELSE [error |-> ErrorMessage(o)]

\* Mutant: the second UPDATE matches no row.
DispatchedRow_NoMatch(row, final_status) == row

\* Mutant: the second UPDATE stamps the time again.
DispatchedRow_Restamped(row, final_status) ==
    [row EXCEPT !.status = final_status, !.approved_at = @ + 1]

\* UPDATE approvals SET status = 'sent' | 'failed' WHERE id = :id
DispatchedRow(row, final_status) == [row EXCEPT !.status = final_status]

\* Step 6: the POST returns or raises; UPDATE ... SET status = 'sent' | 'failed'
\* and the event, in the second transaction.  In a failed transaction the
\* UPDATE raises: inside the try it is caught by "except Exception", whose own
\* UPDATE raises again, and that exception leaves the handler.
approve_approval_Result(c) ==
    /\ call[c].op = "approve" /\ call[c].pc = "await"
    /\ \E o \in WebhookOutcomes :
         IF call[c].tx_failed
         THEN /\ call' = [call EXCEPT ![c] =
                   [Finished(c, InternalServerError) EXCEPT
                      !.webhook_outcome = o,
                      !.final_status = "failed"]]
              /\ row_lock' = Released(c)
         ELSE /\ LockFree(call[c].approval_id, c)
              /\ row_lock' = [row_lock EXCEPT ![call[c].approval_id] = c]
              /\ call' = [call EXCEPT
                   ![c].pc = "commit2",
                   ![c].webhook_outcome = o,
                   ![c].final_status = FinalStatus(o),
                   ![c].error_message = ErrorMessage(o),
                   ![c].tx_row = [found |-> TRUE,
                                  row |-> DispatchedRow(approvals[call[c].approval_id],
                                                        FinalStatus(o))],
                   ![c].tx_events = <<log_approval_event(FinalStatus(o), call[c].user_id,
                                                          EventMetadata(o))>>]
    /\ UNCHANGED <<approvals, approval_events, organizations, webhook_posts,
                   clock, started, resolved_by>>

\* await db.commit() of the second transaction, and the return
approve_approval_Return(c) ==
    /\ call[c].op = "approve" /\ call[c].pc = "commit2"
    /\ approvals' = CommittedApprovals(c)
    /\ approval_events' = CommittedEvents(c)
    /\ row_lock' = Released(c)
    /\ call' = [call EXCEPT ![c] =
          [Finished(c, ApprovalActionResponse(
                          ApproveMessage(call[c].final_status, call[c].error_message),
                          call[c].approval_id, call[c].final_status))
             EXCEPT !.n_events = @ + Len(call[c].tx_events),
                    !.n_updates = @ + 1,
                    !.n_commits = @ + 1]]
    /\ UNCHANGED <<organizations, webhook_posts, clock, started, resolved_by>>

(***************************************************************************)
(* POST /approvals/{approval_id}/reject                                    *)
(***************************************************************************)

reject_approval_Begin(c) ==
    \E r \in Requests : Begin(c, "reject", r[1], r[2])

reject_approval_Lock(c) ==
    /\ call[c].op = "reject" /\ call[c].pc = "lock"
    /\ LET sel == SelectApproval(call[c].approval_id, call[c].org_id) IN
         IF sel.found
         THEN /\ LockFree(call[c].approval_id, c)
              /\ row_lock' = [row_lock EXCEPT ![call[c].approval_id] = c]
              /\ call' = [call EXCEPT ![c].pc = "guard", ![c].approval_row = sel]
         ELSE /\ row_lock' = row_lock
              /\ call' = [call EXCEPT ![c].pc = "guard", ![c].approval_row = NoRow]
    /\ UNCHANGED <<approvals, approval_events, organizations, webhook_posts,
                   clock, started, resolved_by>>

\* Mutant: no status guard in reject.
RejectAllowed_Always(row) == TRUE

\* if approval_row["status"] != "pending": raise
RejectAllowed(row) == row.status = "pending"

\* Mutant: the UPDATE of reject sets the status alone.
RejectedRow_NoStamp(row, user_id, now) == [row EXCEPT !.status = "rejected"]

\* UPDATE approvals SET status = 'rejected', approved_by_user_id = :user_id,
\* approved_at = NOW() WHERE id = :approval_id
RejectedRow(row, user_id, now) ==
    [row EXCEPT !.status = "rejected", !.approved_by_user_id = user_id,
                !.approved_at = now]

reject_approval_Guard(c) ==
    /\ call[c].op = "reject" /\ call[c].pc = "guard"
    /\ IF ~call[c].approval_row.found
       THEN /\ call' = [call EXCEPT ![c] = Finished(c, HTTPException(404, "Approval not found"))]
            /\ row_lock' = Released(c)
            /\ clock' = clock
       ELSE IF ~RejectAllowed(call[c].approval_row.row)
       THEN /\ call' = [call EXCEPT ![c] = Finished(c, HTTPException(400,
                        "Cannot reject: approval is already '"
                            \o call[c].approval_row.row.status \o "'"))]
            /\ row_lock' = Released(c)
            /\ clock' = clock
       ELSE /\ clock' = clock + 1
            /\ call' = [call EXCEPT
                 ![c].pc = "commit",
                 ![c].tx_row = [found |-> TRUE,
                                row |-> RejectedRow(approvals[call[c].approval_id],
                                                    call[c].user_id, clock + 1)],
                 ![c].tx_events = <<log_approval_event("rejected", call[c].user_id, EmptyMetadata)>>]
            /\ row_lock' = row_lock
    /\ UNCHANGED <<approvals, approval_events, organizations, webhook_posts,
                   started, resolved_by>>

\* await db.commit(), and the return
reject_approval_Return(c) ==
    /\ call[c].op = "reject" /\ call[c].pc = "commit"
    /\ approvals' = CommittedApprovals(c)
    /\ approval_events' = CommittedEvents(c)
    /\ row_lock' = Released(c)
    /\ resolved_by' = [resolved_by EXCEPT ![call[c].approval_id] = Append(@, c)]
    /\ call' = [call EXCEPT ![c] =
          [Finished(c, ApprovalActionResponse("Approval rejected",
                                              call[c].approval_id, "rejected"))
             EXCEPT !.final_status = "rejected",
                    !.n_events = @ + Len(call[c].tx_events),
                    !.n_updates = @ + 1,
                    !.n_commits = @ + 1]]
    /\ UNCHANGED <<organizations, webhook_posts, clock, started>>

(***************************************************************************)
(* GET /approvals/{approval_id} and GET /approvals                         *)
(***************************************************************************)

\* the request arrives; the approval query (no lock) and the 404
get_approval_detail_Select(c) ==
    /\ call[c].pc = "idle"
    /\ c = started + 1
    /\ started' = started + 1
    /\ \E r \in Requests :
         LET sel == SelectApproval(r[1], OrgOfUser[r[2]])
             begun == [IdleCall EXCEPT !.op = "detail", !.approval_id = r[1],
                                       !.user_id = r[2], !.org_id = OrgOfUser[r[2]],
                                       !.status_at_start =
                                           IF sel.found THEN sel.row.status ELSE None]
         IN  IF sel.found
             THEN call' = [call EXCEPT ![c] =
                     [begun EXCEPT !.pc = "log_viewed", !.approval_row = sel]]
             ELSE call' = [call EXCEPT ![c] =
                     [begun EXCEPT !.pc = "done",
                                   !.response = HTTPException(404, "Approval not found")]]
    /\ UNCHANGED <<approvals, approval_events, organizations, row_lock,
                   webhook_posts, clock, resolved_by>>

\* Mutant: the look is logged twice.
ViewedLogged_Twice(evs, user_id) ==
    evs \o <<log_approval_event("viewed", user_id, EmptyMetadata),
             log_approval_event("viewed", user_id, EmptyMetadata)>>

\* Mutant: a user's second look at an approval is not logged again.
ViewedLogged_Deduplicated(evs, user_id) ==
    IF \E i \in 1..Len(evs) : evs[i].event = "viewed" /\ evs[i].by_user_id = user_id
    THEN evs
    ELSE Append(evs, log_approval_event("viewed", user_id, EmptyMetadata))

\* await log_approval_event(db, approval_id=approval_id, event="viewed",
\* user_id=user.user_id): an INSERT, whatever the log holds
ViewedLogged(evs, user_id) ==
    Append(evs, log_approval_event("viewed", user_id, EmptyMetadata))

\* the 'viewed' event, the commit, and the ApprovalDetail built from the row read before
get_approval_detail_Return(c) ==
    /\ call[c].op = "detail" /\ call[c].pc = "log_viewed"
    /\ approval_events' = [approval_events EXCEPT ![call[c].approval_id] =
          ViewedLogged(@, call[c].user_id)]
    /\ row_lock' = Released(c)
    /\ call' = [call EXCEPT ![c] =
          [Finished(c, [status_code |-> 200,
                        id |-> call[c].approval_row.row.id,
                        status |-> call[c].approval_row.row.status,
                        approved_at |-> call[c].approval_row.row.approved_at,
                        approved_by_user_id |-> call[c].approval_row.row.approved_by_user_id,
                        n8n_execute_webhook_url |-> call[c].approval_row.row.n8n_execute_webhook_url])
             EXCEPT !.n_events = @ + 1, !.n_commits = @ + 1]]
    /\ UNCHANGED <<approvals, organizations, webhook_posts, clock, started, resolved_by>>

\* WHERE org_id = :org_id [AND status = :status]; the response holds the id
\* and the status of each row
list_approvals(c) ==
    /\ call[c].pc = "idle"
    /\ c = started + 1
    /\ \E u \in {"u1", "u3"}, st \in {None, "pending"} :
         call' = [call EXCEPT ![c] =
            [IdleCall EXCEPT
               !.op = "list", !.pc = "done",
               !.user_id = u, !.org_id = OrgOfUser[u],
               !.response =
                  [status_code |-> 200,
                   items |-> {[id |-> a, status |-> approvals[a].status] :
                                a \in {x \in ApprovalIds :
                                         /\ approvals[x].org_id = OrgOfUser[u]
                                         /\ (Truthy(st) => approvals[x].status = st)}}]]]
    /\ started' = started + 1
    /\ UNCHANGED <<approvals, approval_events, organizations, row_lock,
                   webhook_posts, clock, resolved_by>>

(***************************************************************************)
(* GET /approvals/{approval_id}/assets/{asset_id}/view                     *)
(***************************************************************************)

\* texts the pattern \w+ does not match
NotAWord == {"", "No Such Key"}

\* The error code the classifier extracts from the body: of well-formed XML,
\* the text of root.find(".//Code") when it is not empty; of any other text,
\* the group of the first match of <Code>(\w+)</Code>.
ExtractedCode(body) ==
    IF ~body.present THEN None
    ELSE IF body.well_formed
    THEN IF Len(body.codes) > 0 /\ Truthy(body.codes[1]) THEN body.codes[1] ELSE None
    ELSE LET matches == {i \in 1..Len(body.codes) : body.codes[i] \notin NotAWord} IN
         IF matches = {} THEN None
         ELSE body.codes[CHOOSE i \in matches : \A j \in matches : i <= j]

\* Mutant: of the 4xx statuses only 403 and 404 are told apart from the rest.
classify_upstream_error_No4xxRange(status_code, body) ==
    LET error_code == ExtractedCode(body) IN
    IF error_code \in {"ExpiredToken", "RequestExpired", "TokenRefreshRequired"} THEN "expired"
    ELSE IF error_code = "NoSuchKey" THEN "not_found"
    ELSE IF error_code \in {"AccessDenied", "InvalidAccessKeyId", "SignatureDoesNotMatch"}
         THEN "forbidden"
    ELSE IF status_code = 404 THEN "not_found"
    ELSE IF status_code = 403 THEN "forbidden"
    ELSE IF 500 <= status_code /\ status_code < 600 THEN "unavailable"
    ELSE "unknown"

\* Mutant: the status decides before the code does.
classify_upstream_error_StatusFirst(status_code, body) ==
    LET error_code == ExtractedCode(body) IN
    IF status_code = 404 THEN "not_found"
    ELSE IF status_code = 403 THEN "forbidden"
    ELSE IF error_code \in {"ExpiredToken", "RequestExpired", "TokenRefreshRequired"} THEN "expired"
    ELSE IF error_code = "NoSuchKey" THEN "not_found"
    ELSE IF error_code \in {"AccessDenied", "InvalidAccessKeyId", "SignatureDoesNotMatch"}
         THEN "forbidden"
    ELSE IF 400 <= status_code /\ status_code < 500 THEN "forbidden"
    ELSE IF 500 <= status_code /\ status_code < 600 THEN "unavailable"
    ELSE "unknown"

classify_upstream_error(status_code, body) ==
    LET error_code == ExtractedCode(body) IN
    IF error_code \in {"ExpiredToken", "RequestExpired", "TokenRefreshRequired"} THEN "expired"
    ELSE IF error_code = "NoSuchKey" THEN "not_found"
    ELSE IF error_code \in {"AccessDenied", "InvalidAccessKeyId", "SignatureDoesNotMatch"}
         THEN "forbidden"
    ELSE IF status_code = 404 THEN "not_found"
    ELSE IF status_code = 403 THEN "forbidden"
    ELSE IF 400 <= status_code /\ status_code < 500 THEN "forbidden"
    ELSE IF 500 <= status_code /\ status_code < 600 THEN "unavailable"
    ELSE "unknown"

\* Mutant: the page shows the address the asset could not be loaded from.
render_error_html_WithUrl(kind, approval_id, asset_id, request_id) ==
    [kind |-> kind, approval_id |-> approval_id, asset_id |-> asset_id,
     request_id |-> request_id, url |-> approval_assets[asset_id].external_url]

\* The page: the fixed texts of the kind and the three identifiers.
render_error_html(kind, approval_id, asset_id, request_id) ==
    [kind |-> kind, approval_id |-> approval_id, asset_id |-> asset_id,
     request_id |-> request_id]

\* Mutant: an expired link is answered 401.
StatusOfKind_Expired401(kind) ==
    CASE kind = "expired" -> 401
      [] kind = "forbidden" -> 403
      [] kind = "not_found" -> 404
      [] kind = "unavailable" -> 503
      [] OTHER -> 500

\* status_map
StatusOfKind(kind) ==
    CASE kind = "expired" -> 403
      [] kind = "forbidden" -> 403
      [] kind = "not_found" -> 404
      [] kind = "unavailable" -> 503
      [] OTHER -> 500

\* Mutant: the error is raised as an HTTPException instead of being rendered.
HTMLResponse_Raised(content, code, request_id) ==
    [status_code |-> code, detail |-> "Upstream error"]

HTMLResponse(content, code, request_id) ==
    [status_code |-> code, media_type |-> "text/html", content |-> content,
     headers |-> [Cache_Control |-> "no-store", X_Request_Id |-> request_id]]

\* Mutant: the query without "AND a.org_id = :org_id".
SelectAsset_AnyOrg(s, a, org) ==
    IF /\ s \in AssetIds /\ approval_assets[s].approval_id = a
       /\ a \in ApprovalIds
    THEN [found |-> TRUE, row |-> approval_assets[s]]
    ELSE [found |-> FALSE]

\* SELECT ... FROM approval_assets aa JOIN approvals a ON a.id = aa.approval_id
\* WHERE aa.id = :asset_id AND aa.approval_id = :approval_id AND a.org_id = :org_id
SelectAsset(s, a, org) ==
    IF /\ s \in AssetIds /\ approval_assets[s].approval_id = a
       /\ a \in ApprovalIds /\ approvals[a].org_id = org
    THEN [found |-> TRUE, row |-> approval_assets[s]]
    ELSE NoRow

\* the request arrives, one of requests; the request id, the asset query and
\* the two 404s
Select(c, requests) ==
    /\ call[c].pc = "idle"
    /\ c = started + 1
    /\ started' = started + 1
    /\ \E r \in requests :
         LET sel == SelectAsset(r[2], r[1], OrgOfUser[r[3]])
             begun == [IdleCall EXCEPT !.op = "view", !.approval_id = r[1],
                                       !.asset_id = r[2], !.user_id = r[3],
                                       !.org_id = OrgOfUser[r[3]], !.asset_row = sel]
         IN  IF ~sel.found
             THEN call' = [call EXCEPT ![c] =
                     [begun EXCEPT !.pc = "done",
                                   !.response = HTTPException(404, "Asset not found")]]
             ELSE IF ~Truthy(sel.row.external_url)
             THEN call' = [call EXCEPT ![c] =
                     [begun EXCEPT !.pc = "done",
                                   !.response = HTTPException(404, "Asset URL missing")]]
             ELSE call' = [call EXCEPT ![c] = [begun EXCEPT !.pc = "fetch"]]
    /\ UNCHANGED <<approvals, approval_events, organizations, row_lock,
                   webhook_posts, clock, resolved_by>>

view_approval_asset_Select(c) == Select(c, ViewRequests)

\* The response built from what client.get produced; the request id is the
\* request's own number.
UpstreamResponse(c, o) ==
    LET page(kind) == render_error_html(kind, call[c].approval_id, call[c].asset_id, c) IN
    CASE o.kind = "timeout" -> HTMLResponse(page("unavailable"), 504, c)
      [] o.kind = "request_error" -> HTMLResponse(page("unavailable"), 502, c)
      [] o.kind = "other_error" -> HTMLResponse(page("unknown"), 500, c)
      [] o.kind = "response" /\ o.status_code # 200 ->
           HTMLResponse(page(classify_upstream_error(o.status_code, o.body)),
                        StatusOfKind(classify_upstream_error(o.status_code, o.body)), c)
      [] OTHER ->
           [status_code |-> 200,
            media_type |-> IF Truthy(call[c].asset_row.row.mime_type)
                           THEN call[c].asset_row.row.mime_type
                           ELSE IF Truthy(o.content_type) THEN o.content_type
                           ELSE "application/octet-stream",
            content |-> call[c].asset_row.row.external_url,
            headers |-> [Content_Disposition |->
                            IF Truthy(call[c].asset_row.row.filename)
                            THEN call[c].asset_row.row.filename ELSE "asset",
                         Cache_Control |-> "private, max-age=300",
                         X_Request_Id |-> c]]

\* client.get(external_url), where the upstream produces one of outcomes, and
\* the return
Fetch(c, outcomes) ==
    /\ call[c].op = "view" /\ call[c].pc = "fetch"
    /\ \E o \in outcomes :
         call' = [call EXCEPT ![c] =
                    [Finished(c, UpstreamResponse(c, o)) EXCEPT
                       !.upstream = o, !.n_fetches = @ + 1]]
    /\ row_lock' = Released(c)
    /\ UNCHANGED <<approvals, approval_events, organizations, webhook_posts,
                   clock, started, resolved_by>>

view_approval_asset_Fetch(c) == Fetch(c, UpstreamOutcomes)

(***************************************************************************)
(* The system.                                                             *)
(***************************************************************************)

Next ==
    \E c \in Calls :
        \/ approve_approval_Begin(c)
        \/ approve_approval_Lock(c)
        \/ approve_approval_Guard(c)
        \/ approve_approval_Commit(c)
        \/ approve_approval_Post(c)
        \/ approve_approval_Result(c)
        \/ approve_approval_Return(c)
        \/ reject_approval_Begin(c)
        \/ reject_approval_Lock(c)
        \/ reject_approval_Guard(c)
        \/ reject_approval_Return(c)
        \/ get_approval_detail_Select(c)
        \/ get_approval_detail_Return(c)
        \/ list_approvals(c)
        \/ view_approval_asset_Select(c)
        \/ view_approval_asset_Fetch(c)

Spec == Init /\ [][Next]_vars


(***************************************************************************)
(* The classifier over the whole of its input: one asset view whose        *)
(* upstream answers with any status of ClassifyStatuses and any body of    *)
(* ClassifyBodies.                                                         *)
(***************************************************************************)

\* the codes classify_upstream_error names
RecognisedCodes ==
    {"ExpiredToken", "RequestExpired", "TokenRefreshRequired", "NoSuchKey",
     "AccessDenied", "InvalidAccessKeyId", "SignatureDoesNotMatch"}

\* codes of S3 the classifier does not name
OtherCodes == {"InternalError", "SlowDown"}

\* statuses other than 200 on both sides of every comparison of the classifier
ClassifyStatuses == {204, 302, 399, 400, 403, 404, 409, 499, 500, 503, 599, 600}

\* what may stand between <Code> and </Code>
CodeTexts == RecognisedCodes \cup OtherCodes \cup NotAWord

\* no body (None or ""), and bodies with a text that parses or does not,
\* holding no Code, one Code, or two of which the first is not a word
ClassifyBodies ==
    {NoBody}
    \cup {Body(TRUE, wf, codes) :
            wf \in BOOLEAN,
            codes \in {<<>>} \cup {<<t>> : t \in CodeTexts}
                      \cup {<<t, u>> : t \in NotAWord, u \in {"NoSuchKey", "AccessDenied"}}}

ClassifyInputs ==
    {[kind |-> "response", status_code |-> st, body |-> b, content_type |-> None]
        : st \in ClassifyStatuses, b \in ClassifyBodies}

view_approval_asset_Classified(c) == Fetch(c, ClassifyInputs)

NextClassify ==
    \/ view_approval_asset_Select(1)
    \/ view_approval_asset_Classified(1)

SpecClassify == Init /\ [][NextClassify]_vars

(***************************************************************************)
(* The error pages over assets with different stored URLs: views of the    *)
(* asset of each organization by a user of that organization.              *)
(***************************************************************************)

RenderRequests == {<<"a1", "s1", "u1">>, <<"a2", "s3", "u3">>}

view_approval_asset_SelectOwn(c) == Select(c, RenderRequests)

NextRender ==
    \E c \in Calls :
        \/ view_approval_asset_SelectOwn(c)
        \/ view_approval_asset_Fetch(c)

SpecRender == Init /\ [][NextRender]_vars

(***************************************************************************)
(* Progress of approve and reject.  Once a request has arrived, the event  *)
(* loop runs each of its steps when the step can run: a statement that     *)
(* waits for a row lock runs when the lock is free, and client.post        *)
(* returns or raises within its timeout of 30 seconds.  Nothing obliges a  *)
(* request to arrive.                                                      *)
(***************************************************************************)

\* the steps of request c after its arrival
Step(c) ==
    \/ approve_approval_Lock(c)
    \/ approve_approval_Guard(c)
    \/ approve_approval_Commit(c)
    \/ approve_approval_Post(c)
    \/ approve_approval_Result(c)
    \/ approve_approval_Return(c)
    \/ reject_approval_Lock(c)
    \/ reject_approval_Guard(c)
    \/ reject_approval_Return(c)

\* requests for one approval: by two users of its organization and by a user
\* of the other one
LockRequests == {<<"a1", "u1">>, <<"a1", "u2">>, <<"a1", "u3">>}

approve_approval_Arrives(c) ==
    \E r \in LockRequests : Begin(c, "approve", r[1], r[2])

reject_approval_Arrives(c) ==
    \E r \in LockRequests : Begin(c, "reject", r[1], r[2])

NextLocks ==
    \E c \in Calls :
        \/ approve_approval_Arrives(c)
        \/ reject_approval_Arrives(c)
        \/ Step(c)

Fairness == \A c \in Calls : WF_vars(Step(c))

SpecLocks == Init /\ [][NextLocks]_vars /\ Fairness

(***************************************************************************)
(* Properties.                                                             *)
(***************************************************************************)

Done(c) == call[c].pc = "done"

\* the row named by request c exists in the caller's organization
Matches(c) ==
    /\ call[c].approval_id \in ApprovalIds
    /\ OrgOfApproval[call[c].approval_id] = call[c].org_id

IsTransitionEvent(e) == e.event # "viewed"

\* the committed events of approval a other than 'viewed', in log order
Transitions(a) == SelectSeq(approval_events[a], IsTransitionEvent)

EventNames(evs) == [i \in 1..Len(evs) |-> evs[i].event]

CountOf(name, evs) == Cardinality({i \in 1..Len(evs) : evs[i].event = name})

\* request c committed the transition of its approval out of pending
Won(c) ==
    /\ Matches(c)
    /\ \E i \in 1..Len(resolved_by[call[c].approval_id]) :
          resolved_by[call[c].approval_id][i] = c

\* C1: an approve that arrives after an approve of the same approval has
\* committed is answered 400, commits no event and no row update, issues no
\* POST; the log holds one 'approved' event and the approval got at most one POST.
C1_SecondApproveRejected ==
    \A d \in Calls :
        (/\ call[d].op = "approve" /\ Done(d)
         /\ call[d].status_at_start \in {"approved", "sent", "failed"})
        => /\ call[d].response.status_code = 400
           /\ call[d].n_events = 0 /\ call[d].n_updates = 0 /\ call[d].n_posts = 0
           /\ CountOf("approved", approval_events[call[d].approval_id]) = 1
           /\ Len(webhook_posts[call[d].approval_id]) <= 1

C1_Witness ==
    \E c, d \in Calls :
        /\ c # d /\ call[c].op = "approve" /\ call[d].op = "approve"
        /\ call[c].approval_id = call[d].approval_id
        /\ Won(c) /\ Done(c) /\ Done(d)
        /\ call[d].status_at_start = "sent"
        /\ call[d].response.status_code = 400

\* C2: of the approve/reject requests on one approval exactly one commits the
\* transition out of pending; every other one that found the row read, under
\* the lock, the status the winner committed and is answered 400.
C2_MutuallyExclusive ==
    /\ \A a \in ApprovalIds : Len(resolved_by[a]) <= 1
    /\ \A c \in Calls :
         (/\ call[c].op \in {"approve", "reject"}
          /\ call[c].pc \notin {"idle", "lock", "guard", "commit"}
          /\ call[c].approval_row.found)
         => LET a == call[c].approval_id IN
            \/ /\ call[c].approval_row.row.status = "pending"
               /\ resolved_by[a] = <<c>>
               /\ Done(c) => call[c].response.status_code # 400
            \/ /\ call[c].approval_row.row.status # "pending"
               /\ Done(c) /\ call[c].response.status_code = 400
               /\ call[c].n_updates = 0
               /\ Len(resolved_by[a]) = 1 /\ resolved_by[a][1] # c
               /\ LET w == resolved_by[a][1] IN
                    /\ call[w].op = "reject"
                         => call[c].approval_row.row.status = "rejected"
                    /\ call[w].op = "approve"
                         => call[c].approval_row.row.status \in {"approved", "sent", "failed"}
                    /\ call[c].approval_row.row.approved_by_user_id = call[w].user_id

\* both requests arrived while the approval was pending; one won, the other got 400
C2_Witness ==
    \E c, d \in Calls :
        /\ c # d /\ call[c].approval_id = call[d].approval_id
        /\ call[c].op = "approve" /\ call[d].op = "reject"
        /\ call[c].user_id # call[d].user_id
        /\ call[c].status_at_start = "pending" /\ call[d].status_at_start = "pending"
        /\ Done(c) /\ Done(d)
        /\ call[d].response.status_code = 200
        /\ call[c].response.status_code = 400

AllowedTransitions ==
    {<<"pending", "approved">>, <<"pending", "rejected">>,
     <<"approved", "sent">>, <<"approved", "failed">>}

\* C3: every change of a committed status is pending->approved,
\* pending->rejected, approved->sent or approved->failed.
C3_StateMachine ==
    [][\A a \in ApprovalIds :
          approvals'[a].status # approvals[a].status
          => <<approvals[a].status, approvals'[a].status>> \in AllowedTransitions]_vars

\* the second update was committed after another request had tried the approval
\* inside the window and had been turned away
C3_Witness ==
    \E c, d \in Calls :
        /\ c # d /\ call[c].approval_id = call[d].approval_id
        /\ call[c].op = "approve" /\ Won(c) /\ Done(c)
        /\ approvals[call[c].approval_id].status \in {"sent", "failed"}
        /\ call[d].op = "reject" /\ Done(d)
        /\ call[d].approval_row.found
        /\ call[d].approval_row.row.status = "approved"

\* C4: a reject that reads a status other than pending is answered 400 and
\* commits nothing: approver and time of the row are those it read, and the
\* log holds a 'rejected' event only if the row was rejected before.
C4_RejectNonPending ==
    \A c \in Calls :
        (/\ call[c].op = "reject" /\ Done(c)
         /\ call[c].approval_row.found
         /\ call[c].approval_row.row.status # "pending")
        => LET a == call[c].approval_id
               read == call[c].approval_row.row
           IN  /\ call[c].response.status_code = 400
               /\ call[c].n_events = 0 /\ call[c].n_updates = 0 /\ call[c].n_commits = 0
               /\ approvals[a].approved_at = read.approved_at
               /\ approvals[a].approved_by_user_id = read.approved_by_user_id
               /\ approvals[a].status # "rejected" \/ read.status = "rejected"
               /\ CountOf("rejected", approval_events[a])
                    = (IF read.status = "rejected" THEN 1 ELSE 0)

C4_Witness ==
    \E c \in Calls :
        /\ call[c].op = "reject" /\ Done(c)
        /\ call[c].approval_row.found
        /\ call[c].approval_row.row.status = "failed"
        /\ call[c].response.status_code = 400

\* neither the approval nor its organization has a webhook URL
NoWebhookUrl(a) ==
    /\ ~Truthy(approvals[a].n8n_execute_webhook_url)
    /\ ~Truthy(organizations[approvals[a].org_id].n8n_approval_webhook_url)

\* C5: an approve of a pending approval without any webhook URL returns
\* status approved, the committed status is approved, the log holds the one
\* event 'approved', and nothing was POSTed.
C5_NoUrlStaysApproved ==
    \A c \in Calls :
        (/\ call[c].op = "approve" /\ Won(c) /\ NoWebhookUrl(call[c].approval_id)
         /\ call[c].pc # "commit")
        => LET a == call[c].approval_id IN
           /\ Done(c)
           /\ call[c].response.status_code = 200
           /\ call[c].response.status = "approved"
           /\ approvals[a].status = "approved"
           /\ EventNames(Transitions(a)) = <<"approved">>
           /\ call[c].n_events = 1
           /\ call[c].n_posts = 0
           /\ webhook_posts[a] = <<>>

C5_Witness ==
    \E c \in Calls :
        /\ call[c].op = "approve" /\ Won(c) /\ NoWebhookUrl(call[c].approval_id)
        /\ Done(c) /\ call[c].response.status_code = 200


\* the POST of request c came back with HTTP 200
Got200(c) == WebhookSucceeded(call[c].webhook_outcome)

\* the POST of request c came back with another status, or raised
GotFailure(c) ==
    call[c].webhook_outcome.kind \in {"response", "exception"} /\ ~Got200(c)

\* C6: an approve of a pending approval whose POST returns 200 ends with
\* status sent, and the log holds 'approved' then 'sent', the 'sent' event
\* carrying webhook_status = 200.
C6_SentAfter200 ==
    \A c \in Calls :
        (call[c].op = "approve" /\ Won(c) /\ Done(c) /\ Got200(c))
        => LET a == call[c].approval_id IN
           /\ approvals[a].status = "sent"
           /\ call[c].response.status_code = 200
           /\ call[c].response.status = "sent"
           /\ EventNames(Transitions(a)) = <<"approved", "sent">>
           /\ Transitions(a)[2].metadata = [webhook_status |-> 200]

\* C7: an approve of a pending approval whose POST returns a status other
\* than 200, or raises, ends with status failed, and the log holds 'approved'
\* then 'failed', the 'failed' event carrying the error text and, for a
\* response, its status code.
C7_FailedAfterNon200 ==
    \A c \in Calls :
        (call[c].op = "approve" /\ Won(c) /\ Done(c) /\ GotFailure(c))
        => LET a == call[c].approval_id
               o == call[c].webhook_outcome
           IN  /\ approvals[a].status = "failed"
               /\ call[c].response.status_code = 200
               /\ call[c].response.status = "failed"
               /\ EventNames(Transitions(a)) = <<"approved", "failed">>
               /\ "error" \in DOMAIN Transitions(a)[2].metadata
               /\ o.kind = "response"
                    => /\ "webhook_status" \in DOMAIN Transitions(a)[2].metadata
                       /\ Transitions(a)[2].metadata.webhook_status = o.status_code
               /\ o.kind = "exception"
                    => Transitions(a)[2].metadata = [error |-> o.text]

\* C8: an approve that passed both guards is answered with the success
\* envelope: HTTP 200, ok = true, status approved, sent or failed.
C8_AlwaysOkEnvelope ==
    \A c \in Calls :
        (call[c].op = "approve" /\ Won(c) /\ Done(c))
        => /\ call[c].response.status_code = 200
           /\ call[c].response.ok
           /\ call[c].response.status \in {"approved", "sent", "failed"}
           /\ call[c].response.status = approvals[call[c].approval_id].status

\* no request other than c names the approval c names
Alone(c) ==
    \A d \in Calls : d # c /\ call[d].pc # "idle" => call[d].approval_id # call[c].approval_id

\* C9: an approve or reject whose (id, caller org) matches no row is answered
\* 404, takes no lock, commits nothing and POSTs nothing; left alone with the
\* approval, the row is as it was created.
C9_NotFound ==
    \A c \in Calls :
        (call[c].op \in {"approve", "reject"} /\ ~Matches(c) /\ call[c].pc # "idle")
        => /\ \A a \in ApprovalIds : row_lock[a] # c
           /\ call[c].n_events = 0 /\ call[c].n_updates = 0
           /\ call[c].n_commits = 0 /\ call[c].n_posts = 0
           /\ call[c].pc \in {"lock", "guard", "done"}
           /\ Done(c) => call[c].response = HTTPException(404, "Approval not found")
           /\ (call[c].approval_id \in ApprovalIds /\ Alone(c))
                => /\ approvals[call[c].approval_id].status = "pending"
                   /\ approvals[call[c].approval_id].approved_at = NullTime
                   /\ approvals[call[c].approval_id].approved_by_user_id = None
                   /\ approval_events[call[c].approval_id] = <<>>
                   /\ webhook_posts[call[c].approval_id] = <<>>

\* the id exists, in another organization
C9_Witness ==
    \E c \in Calls :
        /\ call[c].op = "approve" /\ Done(c)
        /\ call[c].approval_id \in ApprovalIds /\ ~Matches(c)
        /\ call[c].response.status_code = 404
        /\ Truthy(approvals[call[c].approval_id].n8n_execute_webhook_url)

\* C10: a reject that passed the guards is answered 200 with status rejected;
\* the row is rejected and carries the caller and the time of the reject; the
\* log holds the one event 'rejected' by the caller; the request committed
\* once and POSTed nothing, whatever webhook URLs exist.
C10_RejectCommitsOnce ==
    \A c \in Calls :
        (call[c].op = "reject" /\ Won(c) /\ Done(c))
        => LET a == call[c].approval_id IN
           /\ call[c].response.status_code = 200
           /\ call[c].response.status = "rejected"
           /\ approvals[a].status = "rejected"
           /\ approvals[a].approved_by_user_id = call[c].user_id
           /\ approvals[a].approved_at # NullTime
           /\ Transitions(a) = <<log_approval_event("rejected", call[c].user_id, EmptyMetadata)>>
           /\ call[c].n_events = 1 /\ call[c].n_commits = 1
           /\ call[c].n_posts = 0
           /\ webhook_posts[a] = <<>>

C10_Witness ==
    \E c \in Calls :
        /\ call[c].op = "reject" /\ Won(c) /\ Done(c)
        /\ call[c].user_id = "u2"
        /\ Truthy(approvals[call[c].approval_id].n8n_execute_webhook_url)
        /\ Truthy(organizations[call[c].org_id].n8n_approval_webhook_url)
        /\ approvals[call[c].approval_id].status = "rejected"

\* the getDetail requests of user u on approval a that were answered 200
SuccessfulDetails(a, u) ==
    {c \in Calls : /\ call[c].op = "detail" /\ Done(c)
                   /\ call[c].approval_id = a /\ call[c].user_id = u
                   /\ call[c].response.status_code = 200}

\* the 'viewed' events of user u in the log of approval a
ViewedBy(a, u) ==
    {i \in 1..Len(approval_events[a]) :
        /\ approval_events[a][i].event = "viewed"
        /\ approval_events[a][i].by_user_id = u}

\* C11: the log of an approval holds as many 'viewed' events of a user as
\* getDetail requests of that user on it were answered 200, whatever status
\* each of them read; a getDetail answered 404 logs nothing.
C11_ViewedPerDetail ==
    /\ \A a \in ApprovalIds, u \in Users :
          Cardinality(ViewedBy(a, u)) = Cardinality(SuccessfulDetails(a, u))
    /\ \A c \in Calls :
          (call[c].op = "detail" /\ Done(c))
          => call[c].n_events = (IF call[c].response.status_code = 200 THEN 1 ELSE 0)

\* the same user looked twice at the same approval
C11_Witness ==
    \E c, d \in Calls :
        /\ c # d
        /\ c \in SuccessfulDetails("a1", "u1") /\ d \in SuccessfulDetails("a1", "u1")
        /\ Cardinality(ViewedBy("a1", "u1")) = 2

\* the asset named by view request c exists, and its approval is the one
\* named in the path but belongs to another organization than the caller's
ForeignAsset(c) ==
    /\ call[c].asset_id \in AssetIds
    /\ approval_assets[call[c].asset_id].approval_id = call[c].approval_id
    /\ OrgOfApproval[call[c].approval_id] # call[c].org_id

\* the asset named by view request c exists and belongs to another approval
\* than the one named in the path
MispairedAsset(c) ==
    /\ call[c].asset_id \in AssetIds
    /\ approval_assets[call[c].asset_id].approval_id # call[c].approval_id

\* C12: an asset view that names an existing asset of an approval of another
\* organization, or an existing asset together with another approval id, is
\* answered 404 "Asset not found", the answer a missing asset gets, and
\* issues no GET of the external URL.
C12_ForeignAssetNotFound ==
    \A c \in Calls :
        (call[c].op = "view" /\ (ForeignAsset(c) \/ MispairedAsset(c)))
        => /\ Done(c)
           /\ call[c].response = HTTPException(404, "Asset not found")
           /\ ~call[c].asset_row.found
           /\ call[c].n_fetches = 0
           /\ call[c].upstream = NoUpstream

\* both cases, by a caller whose organization owns the approval of the second
C12_Witness ==
    \E c, d \in Calls :
        /\ call[c].op = "view" /\ ForeignAsset(c) /\ Done(c)
        /\ Truthy(approval_assets[call[c].asset_id].external_url)
        /\ call[d].op = "view" /\ MispairedAsset(d) /\ Done(d)
        /\ OrgOfApproval[call[d].approval_id] = call[d].org_id
        /\ call[d].response.status_code = 404

\* asset view c is finished and its upstream answered with a status other than 200
UpstreamFailed(c) ==
    /\ call[c].op = "view" /\ Done(c)
    /\ call[c].upstream.kind = "response"
    /\ call[c].upstream.status_code # 200

\* the kind the code alone stands for
KindOfCode(code) ==
    CASE code \in {"ExpiredToken", "RequestExpired", "TokenRefreshRequired"} -> "expired"
      [] code = "NoSuchKey" -> "not_found"
      [] code \in {"AccessDenied", "InvalidAccessKeyId", "SignatureDoesNotMatch"} -> "forbidden"

\* C13: when the code extracted from the body of a failed upstream response
\* is one of the seven recognised codes, the kind of the error page is the
\* kind of that code, whatever the status of the response.
C13_CodeWinsOverStatus ==
    \A c \in Calls :
        (UpstreamFailed(c) /\ ExtractedCode(call[c].upstream.body) \in RecognisedCodes)
        => call[c].response.content.kind
              = KindOfCode(ExtractedCode(call[c].upstream.body))

\* <Error><Code>NoSuchKey</Code></Error> under status 403
C13_Witness ==
    \E c \in Calls :
        /\ UpstreamFailed(c)
        /\ call[c].upstream.status_code = 403
        /\ call[c].upstream.body = Body(TRUE, TRUE, <<"NoSuchKey">>)
        /\ call[c].response.content.kind = "not_found"

\* the response status that stands for each kind
StatusForKind ==
    [k \in {"expired", "forbidden", "not_found", "unavailable", "unknown"} |->
        CASE k = "expired" -> 403
          [] k = "forbidden" -> 403
          [] k = "not_found" -> 404
          [] k = "unavailable" -> 503
          [] k = "unknown" -> 500]

\* C14: an asset view whose upstream answered with a status other than 200
\* returns the HTML page of the kind the classifier gives for that status and
\* body, with status 403 for expired and forbidden, 404 for not_found, 503
\* for unavailable and 500 for unknown.
C14_StatusOfKind ==
    \A c \in Calls :
        UpstreamFailed(c)
        => LET kind == classify_upstream_error(call[c].upstream.status_code,
                                               call[c].upstream.body)
           IN  /\ call[c].response.media_type = "text/html"
               /\ call[c].response.content.kind = kind
               /\ call[c].response.status_code = StatusForKind[kind]

\* an expired link: the upstream said 400, the view answers 403
C14_Witness ==
    \E c \in Calls :
        /\ UpstreamFailed(c)
        /\ call[c].upstream.status_code = 400
        /\ call[c].response.content.kind = "expired"
        /\ call[c].response.status_code = 403

ApprovedEventOf(a, u) ==
    \E i \in 1..Len(approval_events[a]) :
        approval_events[a][i] = log_approval_event("approved", u, EmptyMetadata)

\* C16: from the moment an approve is about to issue its POST, the committed
\* row is approved by the caller and the log holds the caller's 'approved'
\* event: the status is exactly approved until the POST has returned, and
\* row and event stay whatever the POST produces and whatever the request
\* is answered.
C16_CommittedBeforePost ==
    \A c \in Calls :
        (call[c].op = "approve" /\ call[c].pc \in {"post", "await", "commit2", "done"}
         /\ Truthy(call[c].webhook_url))
        => LET a == call[c].approval_id IN
           /\ call[c].pc \in {"post", "await"} => approvals[a].status = "approved"
           /\ call[c].pc = "post" => call[c].n_posts = 0 /\ webhook_posts[a] = <<>>
           /\ approvals[a].status \in {"approved", "sent", "failed"}
           /\ approvals[a].approved_by_user_id = call[c].user_id
           /\ approvals[a].approved_at # NullTime
           /\ ApprovedEventOf(a, call[c].user_id)
           /\ call[c].n_commits >= 1

\* the POST is in flight and has not returned
C16_Witness ==
    \E c \in Calls :
        /\ call[c].op = "approve" /\ call[c].pc = "await" /\ call[c].n_posts = 1
        /\ Len(webhook_posts[call[c].approval_id]) = 1
        /\ approvals[call[c].approval_id].status = "approved"

\* approved_by_user_id or approved_at of approval a differ in the next state
Restamped(a) ==
    \/ approvals'[a].approved_by_user_id # approvals[a].approved_by_user_id
    \/ approvals'[a].approved_at # approvals[a].approved_at

\* C17: a step changes approved_by_user_id or approved_at of an approval only
\* when it moves the approval from pending to approved or rejected, both
\* fields being unset before and set after; every step out of pending sets
\* both; no other step (approved to sent or failed, a request answered 400 or
\* 404, a read) changes either.
C17_StampedOnce ==
    [][\A a \in ApprovalIds :
          /\ Restamped(a)
               => /\ approvals[a].status = "pending"
                  /\ approvals'[a].status \in {"approved", "rejected"}
                  /\ approvals[a].approved_by_user_id = None
                  /\ approvals[a].approved_at = NullTime
          /\ (approvals[a].status = "pending" /\ approvals'[a].status # "pending")
               => /\ approvals'[a].approved_by_user_id \in Users
                  /\ approvals'[a].approved_at # NullTime]_vars

\* the stamp of the approver outlived the second update and a later reject
\* by another user
C17_Witness ==
    \E c, d \in Calls :
        /\ c # d /\ call[c].approval_id = call[d].approval_id
        /\ call[c].op = "approve" /\ Won(c) /\ Done(c)
        /\ approvals[call[c].approval_id].status \in {"sent", "failed"}
        /\ call[d].op = "reject" /\ Done(d) /\ call[d].user_id # call[c].user_id
        /\ call[d].response.status_code = 400
        /\ approvals[call[c].approval_id].approved_by_user_id = call[c].user_id
        /\ approvals[call[c].approval_id].approved_at # NullTime

\* the POST of approve request c is in flight
PostInFlight(c) == call[c].op = "approve" /\ call[c].pc = "await"

\* request d names the approval of c and its caller belongs to the owning organization
SameApproval(c, d) ==
    d # c /\ call[d].approval_id = call[c].approval_id /\ Matches(d)

\* C18: while the POST of an approve is in flight the request holds no row
\* lock and the committed status is approved; an approve or reject of the
\* same approval that runs its lock query then gets the lock unless a third
\* request holds it, reads approved, and its next step answers 400 without a
\* write; a getDetail that arrives then reads approved and goes on to log
\* and return.
C18_NoLockAcrossPost ==
    /\ [](\A c \in Calls :
            PostInFlight(c)
            => /\ \A a \in ApprovalIds : row_lock[a] # c
               /\ approvals[call[c].approval_id].status = "approved")
    /\ [](\A d \in Calls :
            (/\ call[d].op \in {"approve", "reject"} /\ Done(d)
             /\ call[d].approval_row.found
             /\ call[d].approval_row.row.status = "approved")
            => /\ call[d].response.status_code = 400
               /\ call[d].n_updates = 0 /\ call[d].n_events = 0)
    /\ [][\A c, d \in Calls :
            (PostInFlight(c) /\ SameApproval(c, d))
            => /\ (call[d].op \in {"approve", "reject"} /\ call[d].pc = "lock"
                   /\ call'[d].pc # "lock")
                    => /\ call'[d].pc = "guard"
                       /\ call'[d].approval_row.found
                       /\ call'[d].approval_row.row.status = "approved"
               /\ (call[d].op \in {"approve", "reject"} /\ call[d].pc = "guard"
                   /\ call[d].approval_row.row.status = "approved"
                   /\ call'[d].pc # "guard")
                    => /\ call'[d].pc = "done"
                       /\ call'[d].response.status_code = 400
               /\ (call[d].op = "detail" /\ call[d].pc = "log_viewed"
                   /\ call'[d].pc # "log_viewed")
                    => /\ call'[d].pc = "done"
                       /\ call'[d].response.status_code = 200]_vars
    /\ [][\A c, d \in Calls :
            (/\ PostInFlight(c) /\ call[d].pc = "idle" /\ call'[d].op = "detail"
             /\ call'[d].approval_id = call[c].approval_id
             /\ call'[d].org_id = call[c].org_id)
            => /\ call'[d].pc = "log_viewed"
               /\ call'[d].approval_row.row.status = "approved"]_vars

\* a reject and the POST of an approve: the reject came and went with 400 while
\* the POST was in flight
C18_Witness ==
    \E c, d \in Calls :
        /\ PostInFlight(c) /\ SameApproval(c, d)
        /\ call[d].op = "reject" /\ Done(d)
        /\ call[d].status_at_start = "approved"
        /\ call[d].approval_row.row.status = "approved"
        /\ call[d].response.status_code = 400
        /\ row_lock[call[c].approval_id] = NoCall

\* C19: every POST for an approval went to the approval's own
\* n8n_execute_webhook_url when the approval has one, whatever its
\* organization has; to the organization's n8n_approval_webhook_url when the
\* approval has none and the organization has one; and with neither there
\* was no POST.
C19_OwnUrlPreferred ==
    \A a \in ApprovalIds :
        LET own == approvals[a].n8n_execute_webhook_url
            org == organizations[approvals[a].org_id].n8n_approval_webhook_url
        IN  \A i \in 1..Len(webhook_posts[a]) :
               /\ own # None => webhook_posts[a][i].url = own
               /\ (own = None /\ org # None) => webhook_posts[a][i].url = org
               /\ own # None \/ org # None

\* both are set and the POST went to the approval's own
C19_Witness ==
    \E c \in Calls :
        /\ call[c].op = "approve" /\ call[c].n_posts = 1
        /\ approvals[call[c].approval_id].n8n_execute_webhook_url = ApprovalHook
        /\ organizations[call[c].org_id].n8n_approval_webhook_url = OrgHook
        /\ webhook_posts[call[c].approval_id][1].url = ApprovalHook

\* sequence s is a prefix of sequence t
IsPrefix(s, t) == Len(s) <= Len(t) /\ SubSeq(t, 1, Len(s)) = s

\* C20: every step leaves the committed log of every approval a prefix of
\* the log after the step: events are added at the end, none is removed or
\* altered.
C20_AppendOnly ==
    [][\A a \in ApprovalIds : IsPrefix(approval_events[a], approval_events'[a])]_vars

\* a log that grew three times: a look between the two events of an approve
C20_Witness ==
    EventNames(approval_events["a1"]) \in
        {<<"approved", "viewed", "sent">>, <<"approved", "viewed", "failed">>}

\* C21: an approve that committed approved with a resolved webhook URL and
\* has returned left the approval sent or failed, never approved, and was
\* answered with that status.
C21_NeverLeftApproved ==
    \A c \in Calls :
        (call[c].op = "approve" /\ Won(c) /\ Done(c) /\ Truthy(call[c].webhook_url))
        => /\ approvals[call[c].approval_id].status \in {"sent", "failed"}
           /\ call[c].n_commits = 2
           /\ call[c].response.status_code = 200

\* C22: an approve whose asset gathering failed issued its POST all the same,
\* without the asset lists, and once it has returned the approval is sent
\* when the POST returned 200 and failed otherwise, as the response says.
C22_AssetFailureNotFatal ==
    \A c \in Calls :
        (/\ call[c].op = "approve" /\ Won(c) /\ Truthy(call[c].webhook_url)
         /\ call[c].pc \in {"await", "commit2", "done"}
         /\ ~call[c].payload_assets)
        => /\ call[c].n_posts = 1
           /\ webhook_posts[call[c].approval_id]
                = <<[url |-> call[c].webhook_url, assets |-> FALSE]>>
           /\ Done(c)
                => /\ approvals[call[c].approval_id].status
                        = FinalStatus(call[c].webhook_outcome)
                   /\ call[c].response.status_code = 200
                   /\ call[c].response.status = FinalStatus(call[c].webhook_outcome)

\* the kind the status alone stands for
KindOfStatus(status_code) ==
    CASE status_code = 404 -> "not_found"
      [] status_code = 403 -> "forbidden"
      [] status_code \in (400..499) \ {403, 404} -> "forbidden"
      [] status_code \in 500..599 -> "unavailable"
      [] OTHER -> "unknown"

\* C23: when the code extracted from the body of a failed upstream response
\* is none of the seven recognised codes (no body, no Code in it, an empty
\* one, another code), the kind of the error page is the kind of the status;
\* and for every status and body the kind is one of the five.
C23_StatusDecidesWithoutCode ==
    \A c \in Calls :
        UpstreamFailed(c)
        => /\ call[c].response.content.kind
                \in {"expired", "forbidden", "not_found", "unavailable", "unknown"}
           /\ ExtractedCode(call[c].upstream.body) \notin RecognisedCodes
                => call[c].response.content.kind
                      = KindOfStatus(call[c].upstream.status_code)

\* status 403 with a body that does not parse and holds no code
C23_Witness ==
    \E c \in Calls :
        /\ UpstreamFailed(c)
        /\ call[c].upstream.status_code = 403
        /\ call[c].upstream.body = Body(TRUE, FALSE, <<>>)
        /\ call[c].response.content.kind = "forbidden"

\* the response of request c is a rendered error page of the given kind
RenderedPage(c, kind) ==
    /\ "media_type" \in DOMAIN call[c].response
    /\ call[c].response.media_type = "text/html"
    /\ call[c].response.content
         = render_error_html(kind, call[c].approval_id, call[c].asset_id, c)

\* C24: an asset view whose GET timed out returns the rendered unavailable
\* page with status 504; one whose GET failed with another transport error
\* returns it with status 502; and every view that issued its GET and did
\* not get a 200 from the upstream returns some rendered page, never a bare
\* error.
C24_TransportErrorsRendered ==
    \A c \in Calls :
        (call[c].op = "view" /\ Done(c) /\ call[c].n_fetches = 1)
        => /\ call[c].upstream.kind = "timeout"
                => RenderedPage(c, "unavailable") /\ call[c].response.status_code = 504
           /\ call[c].upstream.kind = "request_error"
                => RenderedPage(c, "unavailable") /\ call[c].response.status_code = 502
           /\ ~(call[c].upstream.kind = "response" /\ call[c].upstream.status_code = 200)
                => /\ \E kind \in {"expired", "forbidden", "not_found", "unavailable", "unknown"} :
                        RenderedPage(c, kind)
                   /\ "detail" \notin DOMAIN call[c].response

\* a timeout and another transport error
C24_Witness ==
    \E c, d \in Calls :
        /\ call[c].op = "view" /\ Done(c) /\ call[c].upstream.kind = "timeout"
        /\ call[c].response.status_code = 504
        /\ call[d].op = "view" /\ Done(d) /\ call[d].upstream.kind = "request_error"
        /\ call[d].response.status_code = 502

\* request c is a finished asset view that returned an error page
ErrorPage(c) ==
    /\ call[c].op = "view" /\ Done(c)
    /\ "media_type" \in DOMAIN call[c].response
    /\ call[c].response.media_type = "text/html"

\* a page without its three identifiers
Anonymous(page) ==
    [page EXCEPT !.approval_id = "", !.asset_id = "", !.request_id = NoCall]

\* C25: the error page of an asset view is made of the kind, the approval id,
\* the asset id and the request id of the view and nothing else; none of its
\* parts is the stored external_url; and two error pages of the same kind are
\* the same apart from the three identifiers, whatever assets, stored URLs and
\* upstream answers they came from.
C25_PageRevealsNothing ==
    /\ \A c \in Calls :
          ErrorPage(c)
          => LET page == call[c].response.content IN
             /\ page = [kind |-> page.kind, approval_id |-> call[c].approval_id,
                        asset_id |-> call[c].asset_id, request_id |-> c]
             /\ \A f \in DOMAIN page \ {"request_id"} :
                   page[f] # call[c].asset_row.row.external_url
    /\ \A c, d \in Calls :
          (/\ ErrorPage(c) /\ ErrorPage(d)
           /\ call[c].response.content.kind = call[d].response.content.kind)
          => Anonymous(call[c].response.content) = Anonymous(call[d].response.content)

\* the same kind of page for two assets with different stored URLs and
\* different upstream answers
C25_Witness ==
    \E c, d \in Calls :
        /\ ErrorPage(c) /\ ErrorPage(d)
        /\ call[c].asset_id = "s1" /\ call[d].asset_id = "s3"
        /\ call[c].asset_row.row.external_url # call[d].asset_row.row.external_url
        /\ call[c].upstream.kind = "timeout"
        /\ call[d].upstream.kind = "response" /\ call[d].upstream.status_code = 500
        /\ call[c].response.content.kind = "unavailable"
        /\ call[d].response.content.kind = "unavailable"

\* the status that goes with each sequence of transition events
StatusOfLog ==
    [names \in {<<>>, <<"approved">>, <<"approved", "sent">>,
                <<"approved", "failed">>, <<"rejected">>} |->
        CASE names = <<>> -> "pending"
          [] names = <<"approved">> -> "approved"
          [] names = <<"approved", "sent">> -> "sent"
          [] names = <<"approved", "failed">> -> "failed"
          [] names = <<"rejected">> -> "rejected"]

\* C26: in every committed state the events of an approval other than
\* 'viewed' are, in log order, none, approved, approved then sent, approved
\* then failed, or rejected, and the committed status is pending, approved,
\* sent, failed, rejected accordingly.
C26_LogMatchesStatus ==
    \A a \in ApprovalIds :
        /\ EventNames(Transitions(a)) \in DOMAIN StatusOfLog
        /\ approvals[a].status = StatusOfLog[EventNames(Transitions(a))]

\* approved and failed, with a look in between
C26_Witness ==
    /\ EventNames(approval_events["a1"]) = <<"approved", "viewed", "failed">>
    /\ approvals["a1"].status = "failed"

\* C27: over all requests so far, in every interleaving, at most one POST
\* was issued for each approval, and it was issued by the request that moved
\* the approval out of pending.
C27_AtMostOnePost ==
    \A a \in ApprovalIds :
        /\ Len(webhook_posts[a]) <= 1
        /\ Len(webhook_posts[a])
             = Cardinality({c \in Calls : call[c].approval_id = a /\ call[c].n_posts = 1})
        /\ \A c \in Calls :
              (call[c].approval_id = a /\ call[c].n_posts # 0)
              => call[c].op = "approve" /\ resolved_by[a] = <<c>> /\ call[c].n_posts = 1

\* a second approve after the first one failed: turned away, no second POST
C27_Witness ==
    \E c, d \in Calls :
        /\ c # d /\ call[c].approval_id = call[d].approval_id
        /\ call[c].op = "approve" /\ Done(c) /\ call[c].n_posts = 1
        /\ approvals[call[c].approval_id].status = "failed"
        /\ call[d].op = "approve" /\ Done(d)
        /\ call[d].status_at_start = "failed"
        /\ call[d].response.status_code = 400
        /\ Len(webhook_posts[call[c].approval_id]) = 1

\* request c has arrived and has not returned
InProgress(c) == call[c].pc \notin {"idle", "done"}

\* C28: every approve or reject that has arrived returns, whatever path it
\* takes (404, 400, commit, POST, HTTP 500) and however the requests
\* interleave; a request that has returned holds no row lock; a request
\* holds a row lock only between its lock query and its return or commit.
C28_ReturnsAndReleases ==
    /\ \A c \in Calls : InProgress(c) ~> Done(c)
    /\ [](\A c \in Calls, a \in ApprovalIds :
             row_lock[a] = c
             => /\ call[c].approval_id = a
                /\ call[c].pc \in {"guard", "commit", "commit2"})

\* two requests arrived for a pending approval; the one that had to wait for
\* the lock has returned with 400 and both locks are free
C28_Witness ==
    \E c, d \in Calls :
        /\ c # d /\ call[c].approval_id = call[d].approval_id
        /\ call[c].op = "approve" /\ call[d].op = "approve"
        /\ call[c].status_at_start = "pending" /\ call[d].status_at_start = "pending"
        /\ Won(c) /\ Done(c) /\ Done(d)
        /\ call[d].response.status_code = 400
        /\ \A a \in ApprovalIds : row_lock[a] = NoCall

\* the 'viewed' events in the log of approval a
Viewed(a) == {i \in 1..Len(approval_events[a]) : approval_events[a][i].event = "viewed"}

\* C29: a getDetail whose (approval id, caller organization) matches no row,
\* the id being unknown or that of an approval of another organization, is
\* answered 404 "Approval not found" and commits nothing; the 'viewed' events
\* of every approval are those of the getDetail requests that matched it.
C29_DetailNotFound ==
    /\ \A c \in Calls :
          (call[c].op = "detail" /\ ~Matches(c))
          => /\ Done(c)
             /\ call[c].response = HTTPException(404, "Approval not found")
             /\ ~call[c].approval_row.found
             /\ call[c].n_events = 0 /\ call[c].n_commits = 0
    /\ \A a \in ApprovalIds :
          Cardinality(Viewed(a))
            = Cardinality({c \in Calls : /\ call[c].op = "detail" /\ Done(c)
                                         /\ call[c].approval_id = a /\ Matches(c)})

\* the approval of another organization, looked at by its own user as well
C29_Witness ==
    \E c, d \in Calls :
        /\ call[c].op = "detail" /\ Done(c)
        /\ call[c].approval_id = "a1" /\ call[c].user_id = "u3"
        /\ call[c].response.status_code = 404
        /\ call[d].op = "detail" /\ Done(d)
        /\ call[d].approval_id = "a1" /\ call[d].user_id = "u1"
        /\ Len(approval_events["a1"]) = 1
        /\ approval_events["a2"] = <<>>

\* request c takes the step
Steps(c) == call'[c] # call[c]

\* C30: a step of a list, an asset view or a getDetail leaves the rows of
\* approvals and organizations as they are; a step of a list or an asset
\* view leaves every log as it is; the step of a getDetail that returns 200
\* appends one 'viewed' event of the caller to the log of the approval it
\* fetched and leaves the other logs as they are, and no other step of a
\* getDetail changes a log.
C30_ReadsDoNotMutate ==
    [][\A c \in Calls :
          (Steps(c) /\ call'[c].op \in {"list", "view", "detail"})
          => /\ approvals' = approvals
             /\ organizations' = organizations
             /\ webhook_posts' = webhook_posts
             /\ call'[c].op \in {"list", "view"} => approval_events' = approval_events
             /\ call'[c].op = "detail"
                  => IF call[c].pc = "log_viewed"
                     THEN /\ call'[c].response.status_code = 200
                          /\ approval_events' =
                               [approval_events EXCEPT ![call[c].approval_id] =
                                  Append(@, log_approval_event("viewed", call[c].user_id,
                                                               EmptyMetadata))]
                     ELSE approval_events' = approval_events]_vars

\* a look at a rejected approval: the row is as the reject left it and the
\* log ends with the look
C30_Witness ==
    \E c, d \in Calls :
        /\ call[c].op = "reject" /\ Won(c) /\ Done(c)
        /\ call[d].op = "detail" /\ Done(d) /\ call[d].approval_id = call[c].approval_id
        /\ call[d].response.status_code = 200
        /\ call[d].response.status = "rejected"
        /\ approvals[call[c].approval_id].status = "rejected"
        /\ approvals[call[c].approval_id].approved_by_user_id = call[c].user_id
        /\ EventNames(approval_events[call[c].approval_id]) = <<"rejected", "viewed">>

====
